---- MODULE Spec2Model ----
(***************************************************************************)
(* Timeline layout engine of the art-timeline app: the column resolver     *)
(* (arrangeMovementsInColumns), the year <-> pixel axis mapping and the     *)
(* Timeline component's scroll / zoom / pinch handlers, with single calls   *)
(* of the exported layout functions and a render of Timeline with its       *)
(* MovementBars.                                                            *)
(*                                                                         *)
(* A period is a record [start |-> y] or [start |-> y, end |-> z]: the      *)
(* optional `end?: number` of TimePeriod is an absent field.               *)
(* A movement is [id |-> i, period |-> p]; the display fields play no part  *)
(* in the layout.  JavaScript arrays are 0-based, sequences here 1-based.   *)
(***************************************************************************)
EXTENDS Integers, Sequences, FiniteSets, TLC

VARIABLES
    phase,              \* which function / component the run exercises, and how far it is
    movements,          \* arrangeMovementsInColumns: the input list
    sortedMovements,    \* its sortedMovements
    columns,            \* its columns dictionary, as it is when the function returns
    columnAssignments,  \* its result
    tried,              \* per sorted index, the columns the callback looked at, in order
    timeRange,          \* Timeline prop timeRange (TimelineScreen's context.timeRange)
    screenHeight,       \* Dimensions.get('window').height
    onZoomChange,       \* Timeline prop onZoomChange: "absent", or "setZoomLevel" of the host
    zoomLevel,          \* TimelineScreen state zoomLevel, passed to Timeline as a prop
    scrollOffset,       \* Timeline state scrollOffset
    visibleRange,       \* Timeline state visibleRange
    baseZoomLevel,      \* Timeline ref baseZoomLevel.current
    pinchState,         \* state of the pinch gesture handler
    zoomChanged,        \* the argument of the last onZoomChange call: <<>> or <<zoom>>
    rangeChanged,       \* the argument of the last onVisibleRangeChange call: <<>> or <<range>>
    pinchScale,         \* history: the scales of the last two updates of the current pinch
    gestureStartZoom,   \* history: zoomLevel when the current pinch began
    year,               \* axis mapping: the year converted
    offsetOfYear,       \* axis mapping: <<>> or <<yearToScrollOffset(year)>>
    yearOfOffset,       \* axis mapping: <<>> or <<scrollOffsetToYear of that offset>>
    configObjects,      \* the config objects alive: TIMELINE_CONFIG and Timeline's zoomedConfig
    call,               \* a call of one exported function: its name and arguments
    returned            \* that call: <<>> or <<the value returned>>

arrangeVars == <<movements, sortedMovements, columns, columnAssignments, tried>>
hostVars == <<timeRange, screenHeight, onZoomChange>>
viewVars == <<zoomLevel, scrollOffset, visibleRange, baseZoomLevel, pinchState,
              zoomChanged, pinchScale, gestureStartZoom, configObjects, rangeChanged>>
axisVars == <<year, offsetOfYear, yearOfOffset>>
callVars == <<call, returned>>

vars == <<phase, arrangeVars, hostVars, viewVars, axisVars, callVars>>

----------------------------------------------------------------------------
(* Bounds of the model *)

MaxYear == 2          \* movement years of the resolver runs are 0..MaxYear
MaxMovements == 4     \* longest input list of the resolver runs
OffsetStep == 500     \* scroll events report multiples of OffsetStep pixels
MaxOffsetSteps == 6   \* up to MaxOffsetSteps * OffsetStep pixels
MaxOverscroll == 100  \* and up to MaxOverscroll pixels before the top or past the end
MaxZoomTerm == 27     \* zoom levels n/d are followed while n, d <= MaxZoomTerm
MaxAxisTerm == 4      \* axis runs: zoom n/d with n, d in 1..MaxAxisTerm
AxisSpan == 3         \* axis runs: years within AxisSpan of timeRange.start
MaxTenths == 25       \* calls: offsets within MaxTenths tenths of a pixel of the padding
MaxColumn == 2        \* calls: column indexes -MaxColumn..MaxColumn
MaxBars == 3          \* renders: longest list of movements a Timeline is given

----------------------------------------------------------------------------
(* JavaScript numbers.  Years, and the scroll offsets the model feeds in,     *)
(* are integers; zoom levels and pixel values are fractions <<n, d>>, d > 0,  *)
(* in lowest terms, computed exactly.  A pair with d = 0 is a non-finite      *)
(* number.                                                                  *)

RECURSIVE GCD(_, _)
GCD(a, b) == IF b = 0 THEN a ELSE GCD(b, a % b)

Abs(i) == IF i < 0 THEN -i ELSE i

Frac(n, d) ==
    LET g == GCD(Abs(n), Abs(d))
    IN  IF g = 0 THEN <<0, 0>>
        ELSE IF d < 0 THEN <<(-n) \div g, (-d) \div g>> ELSE <<n \div g, d \div g>>

\* what a division by zero leaves: <<1, 0>> is Infinity, <<-1, 0>> is -Infinity
\* and <<0, 0>> is NaN
IsFinite(a) == a[2] # 0

Num(i) == <<i, 1>>
Add(a, b) == Frac(a[1] * b[2] + b[1] * a[2], a[2] * b[2])
Sub(a, b) == Frac(a[1] * b[2] - b[1] * a[2], a[2] * b[2])
Mul(a, b) == Frac(a[1] * b[1], a[2] * b[2])
Div(a, b) == Frac(a[1] * b[2], a[2] * b[1])
Le(a, b) == a[1] * b[2] <= b[1] * a[2]
Lt(a, b) == a[1] * b[2] < b[1] * a[2]

\* Math.max, Math.min
MathMax(a, b) == IF Le(a, b) THEN b ELSE a
MathMin(a, b) == IF Le(a, b) THEN a ELSE b
IntMax(i, j) == IF i <= j THEN j ELSE i
IntMin(i, j) == IF i <= j THEN i ELSE j

\* Math.round: the nearest integer, a half going up: floor(x + 1/2)
MathRound_HalfDown(a) ==
    IF IsFinite(a) THEN -((a[2] - 2 * a[1]) \div (2 * a[2])) ELSE a

\* (Infinity, -Infinity and NaN are returned as they are)
MathRound(a) ==
    IF IsFinite(a) THEN (2 * a[1] + a[2]) \div (2 * a[2]) ELSE a

----------------------------------------------------------------------------
(* Periods and movements: types/index.ts *)

Years == 0..MaxYear

TimePeriod ==
    [start : Years] \cup {p \in [start : Years, end : Years] : p.end >= p.start}

HasEnd(period) == "end" \in DOMAIN period

\* `const { start, end = start } = period`
EndOrStart(period) == IF HasEnd(period) THEN period.end ELSE period.start

Movement(i, period) == [id |-> i, period |-> period]

----------------------------------------------------------------------------
(* movementsOverlap *)

movementsOverlap_TouchingOverlaps(movement1, movement2) ==
    LET start1 == movement1.period.start
        end1   == EndOrStart(movement1.period)
        start2 == movement2.period.start
        end2   == EndOrStart(movement2.period)
    IN  ~(end1 < start2 \/ end2 < start1)

movementsOverlap_SameYearPointsOverlap(movement1, movement2) ==
    LET start1 == movement1.period.start
        end1   == EndOrStart(movement1.period)
        start2 == movement2.period.start
        end2   == EndOrStart(movement2.period)
    IN  \/ ~(end1 <= start2 \/ end2 <= start1)
        \/ (start1 = start2 /\ ~HasEnd(movement1.period) /\ ~HasEnd(movement2.period))

movementsOverlap_PointsLastAYear(movement1, movement2) ==
    LET start1 == movement1.period.start
        end1   == IF HasEnd(movement1.period) THEN movement1.period.end ELSE start1 + 1
        start2 == movement2.period.start
        end2   == IF HasEnd(movement2.period) THEN movement2.period.end ELSE start2 + 1
    IN  ~(end1 <= start2 \/ end2 <= start1)

movementsOverlap_OneSided(movement1, movement2) ==
    LET end1   == EndOrStart(movement1.period)
        start2 == movement2.period.start
    IN  ~(end1 <= start2)

movementsOverlap(movement1, movement2) ==
    LET start1 == movement1.period.start
        end1   == EndOrStart(movement1.period)
        start2 == movement2.period.start
        end2   == EndOrStart(movement2.period)
    IN  ~(end1 <= start2 \/ end2 <= start1)

----------------------------------------------------------------------------
(* arrangeMovementsInColumns *)

RECURSIVE InsertByStart_BeforeEqual(_, _)
InsertByStart_BeforeEqual(sorted, movement) ==
    IF sorted = <<>> THEN <<movement>>
    ELSE IF Head(sorted).period.start - movement.period.start < 0
         THEN <<Head(sorted)>> \o InsertByStart_BeforeEqual(Tail(sorted), movement)
         ELSE <<movement>> \o sorted

\* Array.prototype.sort is stable: an element goes after every element whose
\* start is not greater than its own.
RECURSIVE InsertByStart(_, _)
InsertByStart(sorted, movement) ==
    IF sorted = <<>> THEN <<movement>>
    ELSE IF Head(sorted).period.start - movement.period.start <= 0
         THEN <<Head(sorted)>> \o InsertByStart(Tail(sorted), movement)
         ELSE <<movement>> \o sorted

RECURSIVE SortPrefix(_, _)
SortPrefix(list, n) ==
    IF n = 0 THEN <<>> ELSE InsertByStart(SortPrefix(list, n - 1), list[n])

SortByStart_InputOrder(list) == list

\* [...movements].sort((a, b) => a.period.start - b.period.start)
SortByStart(list) == SortPrefix(list, Len(list))

\* Array.prototype.indexOf: the first position holding the element
FirstIndexOf(list, movement) ==
    CHOOSE i \in 1..Len(list) :
        /\ list[i] = movement
        /\ \A j \in 1..(i - 1) : list[j] # movement

indexOf_InSorted(list, movement) == FirstIndexOf(SortByStart(list), movement)

\* const originalIndex = movements.indexOf(movement)
indexOf(list, movement) == FirstIndexOf(list, movement)

\* if (!columns[c]) columns[c] = []
EnsureColumn(cols, c) == IF c \in DOMAIN cols THEN cols ELSE cols @@ (c :> <<>>)

\* columns[c].push({ movement, originalIndex })
PushEntry(cols, c, movement, originalIndex) ==
    [cols EXCEPT ![c] = Append(@, [movement |-> movement, originalIndex |-> originalIndex])]

columnHasOverlap_LastOnly(cols, c, movement) ==
    /\ Len(cols[c]) > 0
    /\ movementsOverlap(movement, cols[c][Len(cols[c])].movement)

\* columns[c].some(col => movementsOverlap(movement, col.movement))
columnHasOverlap(cols, c, movement) ==
    \E k \in 1..Len(cols[c]) : movementsOverlap(movement, cols[c][k].movement)

currentColumn_Doubled(columnIndex, useLeftSide) ==
    IF useLeftSide THEN -(2 * columnIndex) ELSE 2 * columnIndex

currentColumn_LeftOnly(columnIndex, useLeftSide) == -columnIndex

currentColumn_SkipsNearest(columnIndex, useLeftSide) ==
    IF useLeftSide THEN -(columnIndex + 1) ELSE columnIndex + 1

currentColumn_RightFirst(columnIndex, useLeftSide) ==
    IF useLeftSide THEN columnIndex ELSE -columnIndex

\* const currentColumn = useLeftSide ? -columnIndex : columnIndex
currentColumn(columnIndex, useLeftSide) ==
    IF useLeftSide THEN -columnIndex ELSE columnIndex

\* The while (true) loop.  The value is the state the loop leaves: the columns
\* dictionary with the entry pushed, the column chosen, and the columns the
\* loop looked at.
RECURSIVE ProbeSides(_, _, _, _, _, _)
ProbeSides(cols, movement, originalIndex, columnIndex, useLeftSide, seen) ==
    LET c     == currentColumn(columnIndex, useLeftSide)
        cols1 == EnsureColumn(cols, c)
    IN  IF ~columnHasOverlap(cols1, c, movement)
        THEN [columns |-> PushEntry(cols1, c, movement, originalIndex),
              column  |-> c,
              tried   |-> Append(seen, c)]
        ELSE IF useLeftSide
             THEN ProbeSides(cols1, movement, originalIndex, columnIndex, FALSE,
                             Append(seen, c))
             ELSE ProbeSides(cols1, movement, originalIndex, columnIndex + 1, TRUE,
                             Append(seen, c))

\* One call of the forEach callback
PlaceMovement(cols, movement, originalIndex) ==
    LET cols0 == EnsureColumn(cols, 0)
    IN  IF ~columnHasOverlap(cols0, 0, movement)
        THEN [columns |-> PushEntry(cols0, 0, movement, originalIndex),
              column  |-> 0,
              tried   |-> <<0>>]
        ELSE ProbeSides(cols0, movement, originalIndex, 1, TRUE, <<0>>)

\* What one call of the callback leaves: the entry pushed by PlaceMovement, and
\* columnAssignments[originalIndex] = the column chosen
Assigned(state, originalIndex, placed) ==
    [columns           |-> placed.columns,
     columnAssignments |-> [state.columnAssignments EXCEPT ![originalIndex] = placed.column],
     tried             |-> Append(state.tried, placed.tried)]

\* The callback of sortedMovements.forEach
ForEachCallback(list, state, movement, originalIndex) ==
    Assigned(state, originalIndex, PlaceMovement(state.columns, movement, originalIndex))

\* sortedMovements.forEach(...), from the k-th element on
RECURSIVE ForEachFrom(_, _, _, _)
ForEachFrom(list, sorted, k, state) ==
    IF k > Len(sorted) THEN state
    ELSE ForEachFrom(list, sorted, k + 1,
                     ForEachCallback(list, state, sorted[k], indexOf(list, sorted[k])))

\* The value is the state the function ends in: its columns dictionary, the
\* columnAssignments it returns, and the columns each callback looked at.
arrangeMovementsInColumns(list) ==
    ForEachFrom(list, SortByStart(list), 1,
                [columns           |-> <<>>,
                 columnAssignments |-> [i \in 1..Len(list) |-> 0],
                 tried             |-> <<>>])

----------------------------------------------------------------------------
(* TIMELINE_CONFIG and the axis mapping: utils/timeline.ts *)

PIXELS_PER_YEAR == 2
TIMELINE_PADDING == 100
MOVEMENT_HEIGHT == 60
MOVEMENT_SPACING == 10

TIMELINE_CONFIG ==
    [PIXELS_PER_YEAR  |-> Num(PIXELS_PER_YEAR),
     TIMELINE_PADDING |-> Num(TIMELINE_PADDING),
     MOVEMENT_HEIGHT  |-> Num(MOVEMENT_HEIGHT),
     MOVEMENT_SPACING |-> Num(MOVEMENT_SPACING)]

yearToScrollOffset_FromEnd(y, range, config) ==
    LET startYear  == EndOrStart(range)
        yearOffset == y - startYear
    IN  Add(config.TIMELINE_PADDING, Mul(Num(yearOffset), config.PIXELS_PER_YEAR))

yearToScrollOffset(y, range, config) ==
    LET startYear  == range.start
        yearOffset == y - startYear
    IN  Add(config.TIMELINE_PADDING, Mul(Num(yearOffset), config.PIXELS_PER_YEAR))

scrollOffsetToYear(offset, range, config) ==
    LET startYear      == range.start
        adjustedOffset == Sub(offset, config.TIMELINE_PADDING)
        yearOffset     == Div(adjustedOffset, config.PIXELS_PER_YEAR)
    IN  MathRound(Add(Num(startYear), yearOffset))

calculateTimelineHeight_NoPadding(range, config) ==
    LET totalYears == EndOrStart(range) - range.start
    IN  Mul(Num(totalYears), config.PIXELS_PER_YEAR)

calculateTimelineHeight_OnePadding(range, config) ==
    LET totalYears == EndOrStart(range) - range.start
    IN  Add(Mul(Num(totalYears), config.PIXELS_PER_YEAR), config.TIMELINE_PADDING)

calculateTimelineHeight(range, config) ==
    LET totalYears == EndOrStart(range) - range.start
    IN  Add(Mul(Num(totalYears), config.PIXELS_PER_YEAR),
            Mul(Num(2), config.TIMELINE_PADDING))

getMovementStartY(movement, range, config) ==
    yearToScrollOffset(movement.period.start, range, config)

getMovementHeight_NoMinimum(movement, config) ==
    LET duration == EndOrStart(movement.period) - movement.period.start
    IN  Mul(Num(duration), config.PIXELS_PER_YEAR)

getMovementHeight(movement, config) ==
    LET duration         == EndOrStart(movement.period) - movement.period.start
        minHeight        == config.MOVEMENT_HEIGHT
        calculatedHeight == Mul(Num(duration), config.PIXELS_PER_YEAR)
    IN  MathMax(minHeight, calculatedHeight)

\* `!end`: true of an absent end and of the end year 0
NotEnd(period) == ~HasEnd(period) \/ period.end = 0

\* start.toString() or `${start} - ${end}`
formatYearRange(period) ==
    IF NotEnd(period) \/ period.start = period.end
    THEN ToString(period.start)
    ELSE ToString(period.start) \o " - " \o ToString(period.end)

----------------------------------------------------------------------------
(* TimeIndicator (components/TimeIndicator.tsx) and MovementBar            *)
(* (components/MovementBar.tsx)                                             *)

\* TimeIndicator's formatRange
formatRange(range) ==
    IF NotEnd(range) \/ range.start = range.end
    THEN ToString(range.start)
    ELSE ToString(range.start) \o " - " \o ToString(range.end)

MOVEMENT_BAR_WIDTH == 20
COLUMN_SPACING == 30

\* MovementBar: the `left` of the wrapper's style
leftOffset_Centered(columnIndex, barWidth, screenWidth) ==
    Sub(Div(Num(screenWidth), Num(2)), Div(barWidth, Num(2)))

\* (barWidth is a number: Timeline passes 20 * zoomLevel)
leftOffset(columnIndex, barWidth, screenWidth) ==
    LET centerX        == Div(Num(screenWidth), Num(2))
        barWithSpacing == Add(barWidth, Num(COLUMN_SPACING))
    IN  IF columnIndex = 0
        THEN Sub(centerX, Div(barWidth, Num(2)))
        ELSE Add(Sub(centerX, Div(barWidth, Num(2))),
                 Mul(Num(columnIndex), barWithSpacing))

\* MovementBar: the style of the wrapper (top, left) and of the color bar
\* (height, width)
MovementBar(movement, range, columnIndex, barWidth, config, screenWidth) ==
    [top    |-> getMovementStartY(movement, range, config),
     left   |-> leftOffset(columnIndex, barWidth, screenWidth),
     height |-> getMovementHeight(movement, config),
     width  |-> barWidth]

----------------------------------------------------------------------------
(* Timeline component (components/Timeline.tsx) and the zoom controls of    *)
(* TimelineScreen (screens/TimelineScreen.tsx)                              *)

ZOOM_MIN == Frac(1, 2)        \* 0.5
ZOOM_MAX == Num(3)            \* 3
ZOOM_FACTOR == Frac(3, 2)     \* 1.5
INITIAL_ZOOM == Num(2)        \* useState(2)
UI_ALLOWANCE == 200           \* screenHeight - 200

\* the config objects once utils/timeline.ts is loaded
ModuleObjects == [TIMELINE_CONFIG |-> TIMELINE_CONFIG]

useMemoZoomedConfig_InPlace(objects, zoom) ==
    LET written == [objects.TIMELINE_CONFIG EXCEPT !.PIXELS_PER_YEAR = Mul(@, zoom)]
    IN  [TIMELINE_CONFIG |-> written, zoomedConfig |-> written]

\* useMemo(() => ({ ...TIMELINE_CONFIG, PIXELS_PER_YEAR: ... * zoomLevel }), [zoomLevel]):
\* the objects after the memo ran.  The object literal is a new object, the
\* spread copies the fields of TIMELINE_CONFIG into it.
useMemoZoomedConfig(objects, zoom) ==
    [TIMELINE_CONFIG |-> objects.TIMELINE_CONFIG,
     zoomedConfig    |-> [objects.TIMELINE_CONFIG EXCEPT !.PIXELS_PER_YEAR = Mul(@, zoom)]]

zoomedConfig_Unscaled(zoom) == TIMELINE_CONFIG

\* { ...TIMELINE_CONFIG, PIXELS_PER_YEAR: TIMELINE_CONFIG.PIXELS_PER_YEAR * zoomLevel }
zoomedConfig(zoom) ==
    [TIMELINE_CONFIG EXCEPT !.PIXELS_PER_YEAR = Mul(@, zoom)]

\* timeRange.end || timeRange.start: an end of 0 is falsy
EndOrElseStart(range) ==
    IF HasEnd(range) /\ range.end # 0 THEN range.end ELSE range.start

\* updateVisibleRange: the newRange it stores and reports
updateVisibleRange(offset, range, config, height) ==
    LET viewportHeight == Num(height - UI_ALLOWANCE)
        startYear == scrollOffsetToYear(offset, range, config)
        endYear   == scrollOffsetToYear(Add(offset, viewportHeight), range, config)
    IN  [start |-> IntMax(startYear, range.start),
         end   |-> IntMin(endYear, EndOrElseStart(range))]

onVisibleRangeChange_OnlyFirst(delivered, newRange) ==
    IF delivered = <<>> THEN <<newRange>> ELSE delivered

\* onVisibleRangeChange?.(newRange), which updateVisibleRange calls right after
\* setVisibleRange(newRange): what the host's callback has last been given
onVisibleRangeChange(delivered, newRange) == <<newRange>>

\* the effect on [zoomLevel, scrollOffset, updateVisibleRange], which runs after
\* every render that changed one of them
visibleRangeEffect(offset, range, zoom, height) ==
    updateVisibleRange(offset, range, zoomedConfig(zoom), height)

handleZoomIn_Unclamped(prev) == Mul(prev, ZOOM_FACTOR)

\* setZoomLevel(prev => Math.min(prev * 1.5, 3))
handleZoomIn(prev) == MathMin(Mul(prev, ZOOM_FACTOR), ZOOM_MAX)

\* setZoomLevel(prev => Math.max(prev / 1.5, 0.5))
handleZoomOut(prev) == MathMax(Div(prev, ZOOM_FACTOR), ZOOM_MIN)

pinchZoomLevel_FromCurrent(base, current, scale) ==
    MathMax(ZOOM_MIN, MathMin(ZOOM_MAX, Mul(current, scale)))

\* const newZoomLevel = Math.max(0.5, Math.min(3, baseZoomLevel.current * scale))
\* (current is the zoomLevel prop, which the handler does not read)
pinchZoomLevel(base, current, scale) ==
    MathMax(ZOOM_MIN, MathMin(ZOOM_MAX, Mul(base, scale)))

TIMELINE_BAR_WIDTH == 20

\* Timeline's render: the height of the scroll view's content and one
\* MovementBar per movement, with barWidth={20 * zoomLevel} and config={zoomedConfig}
TimelineElements(list, range, zoom, screenWidth, assignments) ==
    [timelineHeight |-> calculateTimelineHeight(range, zoomedConfig(zoom)),
     bars |-> [index \in 1..Len(list) |->
                  MovementBar(list[index], range, assignments[index],
                              Mul(Num(TIMELINE_BAR_WIDTH), zoom), zoomedConfig(zoom),
                              screenWidth)]]

----------------------------------------------------------------------------
(* Values of the variables a run does not use *)

ArrangeIdle ==
    /\ movements = <<>>
    /\ sortedMovements = <<>>
    /\ columns = <<>>
    /\ columnAssignments = <<>>
    /\ tried = <<>>

ViewIdle ==
    /\ scrollOffset = Num(0)
    /\ visibleRange = [start |-> 0, end |-> 0]
    /\ baseZoomLevel = Num(1)
    /\ pinchState = "UNDETERMINED"
    /\ zoomChanged = <<>>
    /\ pinchScale = <<>>
    /\ gestureStartZoom = Num(1)
    /\ configObjects = ModuleObjects
    /\ rangeChanged = <<>>

AxisIdle ==
    /\ year = 0
    /\ offsetOfYear = <<>>
    /\ yearOfOffset = <<>>

CallIdle ==
    /\ call = [fn |-> "none"]
    /\ returned = <<>>

----------------------------------------------------------------------------
(* Specification of the resolver: every input list within the bounds, then  *)
(* one call.                                                                *)

\* Every list of valid movements with unique ids (the id is the input position)
InitArrange ==
    /\ phase = "arrange"
    /\ \E n \in 0..MaxMovements : \E ps \in [1..n -> TimePeriod] :
           movements = [i \in 1..n |-> Movement(i, ps[i])]
    /\ sortedMovements = <<>>
    /\ columns = <<>>
    /\ columnAssignments = <<>>
    /\ tried = <<>>
    /\ timeRange = [start |-> 0]
    /\ screenHeight = 0
    /\ onZoomChange = "absent"
    /\ zoomLevel = Num(1)
    /\ ViewIdle
    /\ AxisIdle
    /\ CallIdle

Arrange ==
    /\ phase = "arrange"
    /\ \E result \in {arrangeMovementsInColumns(movements)} :
           /\ sortedMovements' = SortByStart(movements)
           /\ columns' = result.columns
           /\ columnAssignments' = result.columnAssignments
           /\ tried' = result.tried
    /\ phase' = "arranged"
    /\ UNCHANGED <<movements, hostVars, viewVars, axisVars, callVars>>

NextArrange == Arrange

SpecArrange == InitArrange /\ [][NextArrange]_vars

----------------------------------------------------------------------------
(* Specification of the Timeline component inside its host screen: scroll   *)
(* events, the zoom buttons and pinch gestures, in any order.               *)

\* the fallback context's range, and a range without end year
TimeRanges == {[start |-> 1400, end |-> 1920], [start |-> 1900]}

\* window heights: the phone of the test setup, upright and on its side
ScreenHeights == {667, 375}

PinchScales == {Frac(1, 2), Num(4)}

\* the history of scales, the last two kept
Remember(scales, scale) ==
    IF Len(scales) < 2 THEN Append(scales, scale) ELSE <<scales[2], scale>>

WithinZoomTerms(zoom) == zoom[1] <= MaxZoomTerm /\ zoom[2] <= MaxZoomTerm

\* The scroll view reports offsets from MaxOverscroll pixels before the top to
\* MaxOverscroll pixels past its last position.
ScrollOffsets(range, zoom, height) ==
    LET content == calculateTimelineHeight(range, zoomedConfig(zoom))
        last    == MathMax(Num(0), Sub(content, Num(height - UI_ALLOWANCE)))
    IN  {o \in {Num(-MaxOverscroll)} \cup {Num(k * OffsetStep) : k \in 0..MaxOffsetSteps} :
            Le(o, Add(last, Num(MaxOverscroll)))}

\* After mount: the state initialisers, then the effects of the first render
Init ==
    /\ phase = "view"
    /\ timeRange \in TimeRanges
    /\ screenHeight \in ScreenHeights
    /\ onZoomChange \in {"absent", "setZoomLevel"}
    /\ zoomLevel = INITIAL_ZOOM
    /\ scrollOffset = Num(0)
    /\ visibleRange = visibleRangeEffect(Num(0), timeRange, INITIAL_ZOOM, screenHeight)
    /\ baseZoomLevel = INITIAL_ZOOM
    /\ pinchState = "UNDETERMINED"
    /\ zoomChanged = <<>>
    /\ pinchScale = <<>>
    /\ gestureStartZoom = INITIAL_ZOOM
    /\ configObjects = useMemoZoomedConfig(ModuleObjects, INITIAL_ZOOM)
    /\ rangeChanged = onVisibleRangeChange(<<>>, visibleRange)
    /\ ArrangeIdle
    /\ AxisIdle
    /\ CallIdle

\* handleScroll, and the effect that follows the render
HandleScroll ==
    /\ phase = "view"
    /\ \E offset \in ScrollOffsets(timeRange, zoomLevel, screenHeight) :
          LET stored == updateVisibleRange(offset, timeRange, zoomedConfig(zoomLevel),
                                           screenHeight)
          IN  /\ scrollOffset' = offset
              /\ visibleRange' =
                    IF offset = scrollOffset
                    THEN stored
                    ELSE visibleRangeEffect(offset, timeRange, zoomLevel, screenHeight)
              /\ rangeChanged' = onVisibleRangeChange(rangeChanged, visibleRange')
    /\ UNCHANGED <<phase, arrangeVars, hostVars, axisVars, callVars, zoomLevel, baseZoomLevel,
                   pinchState, zoomChanged, pinchScale, gestureStartZoom,
                   configObjects>>

\* the + button (disabled at zoomLevel >= 3): handleZoomIn, render, effect
ZoomInPress ==
    /\ phase = "view"
    /\ Lt(zoomLevel, ZOOM_MAX)
    /\ WithinZoomTerms(handleZoomIn(zoomLevel))
    /\ zoomLevel' = handleZoomIn(zoomLevel)
    /\ configObjects' = useMemoZoomedConfig(configObjects, zoomLevel')
    /\ visibleRange' = visibleRangeEffect(scrollOffset, timeRange, zoomLevel', screenHeight)
    /\ rangeChanged' = onVisibleRangeChange(rangeChanged, visibleRange')
    /\ UNCHANGED <<phase, arrangeVars, hostVars, axisVars, callVars, scrollOffset, baseZoomLevel,
                   pinchState, zoomChanged, pinchScale, gestureStartZoom>>

\* the - button (disabled at zoomLevel <= 0.5): handleZoomOut, render, effect
ZoomOutPress ==
    /\ phase = "view"
    /\ Lt(ZOOM_MIN, zoomLevel)
    /\ WithinZoomTerms(handleZoomOut(zoomLevel))
    /\ zoomLevel' = handleZoomOut(zoomLevel)
    /\ configObjects' = useMemoZoomedConfig(configObjects, zoomLevel')
    /\ visibleRange' = visibleRangeEffect(scrollOffset, timeRange, zoomLevel', screenHeight)
    /\ rangeChanged' = onVisibleRangeChange(rangeChanged, visibleRange')
    /\ UNCHANGED <<phase, arrangeVars, hostVars, axisVars, callVars, scrollOffset, baseZoomLevel,
                   pinchState, zoomChanged, pinchScale, gestureStartZoom>>

\* handlePinchGestureStateChange with state BEGAN
PinchBegan ==
    /\ phase = "view"
    /\ pinchState = "UNDETERMINED"
    /\ pinchState' = "BEGAN"
    /\ baseZoomLevel' = zoomLevel
    /\ gestureStartZoom' = zoomLevel
    /\ pinchScale' = <<>>
    /\ UNCHANGED <<phase, arrangeVars, hostVars, axisVars, callVars, zoomLevel, scrollOffset,
                   visibleRange, zoomChanged, configObjects, rangeChanged>>

\* handlePinchGestureStateChange with state ACTIVE: nothing is stored
PinchActive ==
    /\ phase = "view"
    /\ pinchState = "BEGAN"
    /\ pinchState' = "ACTIVE"
    /\ UNCHANGED <<phase, arrangeVars, hostVars, axisVars, callVars, zoomLevel, scrollOffset,
                   visibleRange, baseZoomLevel, zoomChanged, pinchScale, gestureStartZoom,
                   configObjects, rangeChanged>>

\* handlePinchGestureStateChange with state END, FAILED or CANCELLED
PinchEnd ==
    /\ phase = "view"
    /\ pinchState \in {"BEGAN", "ACTIVE"}
    /\ pinchState' = "UNDETERMINED"
    /\ UNCHANGED <<phase, arrangeVars, hostVars, axisVars, callVars, zoomLevel, scrollOffset,
                   visibleRange, baseZoomLevel, zoomChanged, pinchScale, gestureStartZoom,
                   configObjects, rangeChanged>>

\* handlePinchGestureEvent; a host that passes onZoomChange stores the value as
\* its zoomLevel, and the render and the effect follow
PinchGestureEvent ==
    /\ phase = "view"
    /\ pinchState = "ACTIVE"
    /\ \E scale \in PinchScales :
          /\ pinchScale' = Remember(pinchScale, scale)
          /\ IF onZoomChange = "absent"
             THEN UNCHANGED <<zoomLevel, visibleRange, zoomChanged, configObjects, rangeChanged>>
             ELSE LET newZoomLevel == pinchZoomLevel(baseZoomLevel, zoomLevel, scale)
                  IN  /\ WithinZoomTerms(newZoomLevel)
                      /\ zoomChanged' = <<newZoomLevel>>
                      /\ zoomLevel' = newZoomLevel
                      /\ configObjects' = useMemoZoomedConfig(configObjects, newZoomLevel)
                      /\ visibleRange' = visibleRangeEffect(scrollOffset, timeRange,
                                                            newZoomLevel, screenHeight)
                      /\ rangeChanged' = onVisibleRangeChange(rangeChanged, visibleRange')
    /\ UNCHANGED <<phase, arrangeVars, hostVars, axisVars, callVars, scrollOffset, baseZoomLevel,
                   pinchState, gestureStartZoom>>

Next ==
    \/ HandleScroll
    \/ ZoomInPress
    \/ ZoomOutPress
    \/ PinchBegan
    \/ PinchActive
    \/ PinchEnd
    \/ PinchGestureEvent

Spec == Init /\ [][Next]_vars

----------------------------------------------------------------------------
(* Specification of the axis mapping: a year is converted to a scroll       *)
(* offset and the offset back to a year, under any positive zoom.           *)

AxisZooms == {Frac(n, d) : n \in 1..MaxAxisTerm, d \in 1..MaxAxisTerm}

InitAxis ==
    /\ phase = "axis"
    /\ timeRange \in TimeRanges
    /\ zoomLevel \in AxisZooms
    /\ year \in (timeRange.start - AxisSpan)..(timeRange.start + AxisSpan)
    /\ offsetOfYear = <<>>
    /\ yearOfOffset = <<>>
    /\ screenHeight = 0
    /\ onZoomChange = "absent"
    /\ ArrangeIdle
    /\ ViewIdle
    /\ CallIdle

YearToOffset ==
    /\ phase = "axis"
    /\ offsetOfYear' = <<yearToScrollOffset(year, timeRange, zoomedConfig(zoomLevel))>>
    /\ phase' = "axis-offset"
    /\ UNCHANGED <<arrangeVars, hostVars, viewVars, callVars, year, yearOfOffset>>

OffsetToYear ==
    /\ phase = "axis-offset"
    /\ yearOfOffset' = <<scrollOffsetToYear(offsetOfYear[1], timeRange,
                                            zoomedConfig(zoomLevel))>>
    /\ phase' = "axis-year"
    /\ UNCHANGED <<arrangeVars, hostVars, viewVars, callVars, year, offsetOfYear>>

NextAxis == YearToOffset \/ OffsetToYear

SpecAxis == InitAxis /\ [][NextAxis]_vars

----------------------------------------------------------------------------
(* Specification of single calls: one exported function of utils/timeline.ts, *)
(* TimeIndicator's formatRange or MovementBar's position, with its arguments, *)
(* and then its return.                                                     *)

\* the zoomLevel prop is any number; the host screen keeps it in [0.5, 3]
ZoomProps == {Frac(1, 2), Num(1), Frac(4, 3), Num(3), Num(0), Num(-1)}

CallConfigs == {zoomedConfig(zoom) : zoom \in ZoomProps}

CallStarts == {-50, 1400, 1900}
CallDurations == {0, 10, 30, 50, 61, 200, 520}

\* periods of art history: without end, and from a single year to centuries
CallPeriods ==
    [start : CallStarts]
        \cup {[start |-> y, end |-> y + d] : y \in CallStarts, d \in CallDurations}

\* offsets around the top padding in tenths of a pixel, and the offsets of the
\* years 1500 and 1500.7 of the unit tests
CallOffsets ==
    {Frac(10 * TIMELINE_PADDING + t, 10) : t \in -MaxTenths..MaxTenths}
        \cup {Num(100 + 100 * 2), Frac(1000 + 1007 * 2, 10)}

ScreenWidths == {375, 667}
BarWidths == {Num(MOVEMENT_BAR_WIDTH), Num(30)}

Calls ==
    {[fn |-> "scrollOffsetToYear", scrollOffset |-> o, timeRange |-> r, config |-> c] :
        o \in CallOffsets, r \in TimeRanges \cup {[start |-> 0, end |-> 2]},
        c \in CallConfigs}
    \cup {[fn |-> "calculateTimelineHeight", timeRange |-> r, config |-> c] :
            r \in CallPeriods, c \in CallConfigs}
    \cup {[fn |-> "getMovementHeight", movement |-> Movement(1, p), config |-> c] :
            p \in CallPeriods, c \in CallConfigs}
    \cup {[fn |-> "movementsOverlap", movement1 |-> Movement(1, p),
           movement2 |-> Movement(2, q)] : p \in TimePeriod, q \in TimePeriod}
    \cup {[fn |-> "formatYearRange", period |-> p] : p \in CallPeriods}
    \cup {[fn |-> "formatRange", range |-> p] : p \in CallPeriods}
    \cup {[fn |-> "MovementBar", columnIndex |-> c, barWidth |-> w, screenWidth |-> sw] :
            c \in -MaxColumn..MaxColumn, w \in BarWidths, sw \in ScreenWidths}

InitCall ==
    /\ phase = "call"
    /\ call \in Calls
    /\ returned = <<>>
    /\ timeRange = [start |-> 0]
    /\ screenHeight = 0
    /\ onZoomChange = "absent"
    /\ zoomLevel = Num(1)
    /\ ArrangeIdle
    /\ ViewIdle
    /\ AxisIdle

Return(value) ==
    /\ phase = "call"
    /\ returned' = <<value>>
    /\ phase' = "returned"
    /\ UNCHANGED <<call, arrangeVars, hostVars, viewVars, axisVars>>

CallScrollOffsetToYear ==
    /\ call.fn = "scrollOffsetToYear"
    /\ Return(scrollOffsetToYear(call.scrollOffset, call.timeRange, call.config))

CallCalculateTimelineHeight ==
    /\ call.fn = "calculateTimelineHeight"
    /\ Return(calculateTimelineHeight(call.timeRange, call.config))

CallGetMovementHeight ==
    /\ call.fn = "getMovementHeight"
    /\ Return(getMovementHeight(call.movement, call.config))

CallMovementsOverlap ==
    /\ call.fn = "movementsOverlap"
    /\ Return(movementsOverlap(call.movement1, call.movement2))

CallFormatYearRange ==
    /\ call.fn = "formatYearRange"
    /\ Return(formatYearRange(call.period))

CallFormatRange ==
    /\ call.fn = "formatRange"
    /\ Return(formatRange(call.range))

RenderMovementBar ==
    /\ call.fn = "MovementBar"
    /\ Return(leftOffset(call.columnIndex, call.barWidth, call.screenWidth))

NextCall ==
    \/ CallScrollOffsetToYear
    \/ CallCalculateTimelineHeight
    \/ CallGetMovementHeight
    \/ CallMovementsOverlap
    \/ CallFormatYearRange
    \/ CallFormatRange
    \/ RenderMovementBar

SpecCall == InitCall /\ [][NextCall]_vars

----------------------------------------------------------------------------
(* Specification of a render of Timeline: the component is called with its    *)
(* props and returns its elements.                                          *)

\* the zoom levels the host screen can pass
RenderZooms == {Frac(1, 2), Num(1), Frac(4, 3), Num(2), Num(3)}

\* movements of the fallback range: without end, of a decade, of centuries
RenderPeriods ==
    {[start |-> 1400], [start |-> 1400, end |-> 1410], [start |-> 1410, end |-> 1420],
     [start |-> 1400, end |-> 1600], [start |-> 1500, end |-> 1920],
     [start |-> 1900], [start |-> 1900, end |-> 1920]}

InitRender ==
    /\ phase = "call"
    /\ \E n \in 0..MaxBars : \E ps \in [1..n -> RenderPeriods] :
       \E range \in TimeRanges : \E zoom \in RenderZooms : \E width \in ScreenWidths :
           call = [fn |-> "Timeline",
                   movements |-> [i \in 1..n |-> Movement(i, ps[i])],
                   timeRange |-> range, zoomLevel |-> zoom, screenWidth |-> width]
    /\ returned = <<>>
    /\ timeRange = [start |-> 0]
    /\ screenHeight = 0
    /\ onZoomChange = "absent"
    /\ zoomLevel = Num(1)
    /\ ArrangeIdle
    /\ ViewIdle
    /\ AxisIdle

RenderTimeline ==
    /\ call.fn = "Timeline"
    /\ \E result \in {arrangeMovementsInColumns(call.movements)} :
           Return(TimelineElements(call.movements, call.timeRange, call.zoomLevel,
                                   call.screenWidth, result.columnAssignments))

NextRender == RenderTimeline

SpecRender == InitRender /\ [][NextRender]_vars

----------------------------------------------------------------------------
(* Claims about the resolver, checked under SpecArrange *)

Arranged == phase = "arranged"

Positions == 1..Len(movements)

\* C1: any two distinct movements of the input that are assigned the same
\* column do not overlap.
C1_SameColumnNoOverlap ==
    Arranged =>
        \A i, j \in Positions :
            (i # j /\ columnAssignments[i] = columnAssignments[j])
                => ~movementsOverlap(movements[i], movements[j])

\* a column shared by a ranged movement, a movement without end year and a
\* third one, next to an occupied side column
C1_Witness ==
    /\ Arranged
    /\ \E i, j, k \in Positions :
          /\ i # j /\ j # k /\ i # k
          /\ columnAssignments[i] = columnAssignments[j]
          /\ columnAssignments[j] = columnAssignments[k]
          /\ ~HasEnd(movements[j].period)
    /\ \E i \in Positions : columnAssignments[i] # 0

\* the j-th column of the probe sequence 0, -1, +1, -2, +2, ...
ProbeOrder(j) == IF j % 2 = 0 THEN -(j \div 2) ELSE j \div 2

\* the column given to the k-th movement of the sorted list
ColumnOfSorted(k) ==
    columnAssignments[CHOOSE i \in Positions : movements[i] = sortedMovements[k]]

\* column c holds no movement placed before the k-th that overlaps the k-th
FreeFor(k, c) ==
    \A h \in 1..(k - 1) :
        ColumnOfSorted(h) = c => ~movementsOverlap(sortedMovements[k], sortedMovements[h])

C3_TwoOverlappingGetZeroOne ==
    ( /\ Arranged
      /\ Len(movements) = 2
      /\ movements[1].period.start <= movements[2].period.start
      /\ movementsOverlap(movements[1], movements[2]) )
        => columnAssignments = <<0, 1>>

\* C4: the result has one column per input movement, and position i holds the
\* column in which the i-th movement of the input (not of the sorted list) was
\* placed; an empty input gives an empty result.
C4_ResultIndexedByInputOrder ==
    Arranged =>
        /\ Len(columnAssignments) = Len(movements)
        /\ \A i \in Positions :
              /\ columnAssignments[i] \in DOMAIN columns
              /\ \E e \in 1..Len(columns[columnAssignments[i]]) :
                    columns[columnAssignments[i]][e].movement = movements[i]

\* an input that is not in sorted order and uses two columns
C4_Witness ==
    /\ Arranged
    /\ sortedMovements # movements
    /\ \E i, j \in Positions : columnAssignments[i] # columnAssignments[j]

\* one period ends no later than the other starts (they may touch)
Apart(p, q) == EndOrStart(p) <= q.start \/ EndOrStart(q) <= p.start

\* C5: if no two movements of the input overlap, periods that merely touch
\* counting as not overlapping, every movement gets column 0.
C5_NoOverlapAllCenter ==
    ( /\ Arranged
      /\ \A i, j \in Positions :
            i # j => Apart(movements[i].period, movements[j].period) )
        => \A i \in Positions : columnAssignments[i] = 0

\* two ranged movements that touch, both in column 0
C5_Witness ==
    /\ Arranged
    /\ \E i, j \in Positions :
          /\ i # j
          /\ HasEnd(movements[i].period)
          /\ movements[i].period.start < movements[i].period.end
          /\ movements[i].period.end = movements[j].period.start
          /\ movements[j].period.start < EndOrStart(movements[j].period)
    /\ \A i, j \in Positions : i # j => Apart(movements[i].period, movements[j].period)
    /\ \A i \in Positions : columnAssignments[i] = 0

\* the input list in another order: position i holds the movement of position order[i]
Reordered(order) == [i \in Positions |-> movements[order[i]]]

DistinctStarts ==
    \A i, j \in Positions :
        i # j => movements[i].period.start # movements[j].period.start

\* C15: for movements with pairwise distinct start years, the column each
\* movement is assigned is the same for every ordering of the input list.
C15_ColumnsIndependentOfInputOrder ==
    (Arranged /\ DistinctStarts) =>
        \A order \in Permutations(Positions) :
            arrangeMovementsInColumns(Reordered(order)).columnAssignments
                = [i \in Positions |-> columnAssignments[order[i]]]

\* three movements given latest first, the earliest in the center and the
\* second beside it
C15_Witness ==
    /\ Arranged
    /\ DistinctStarts
    /\ Len(movements) = 3
    /\ movements[1].period.start > movements[2].period.start
    /\ movements[2].period.start > movements[3].period.start
    /\ columnAssignments[3] = 0
    /\ columnAssignments[2] # 0

\* where a column comes in the probe order 0, -1, +1, -2, +2, ...
ProbeRank(c) == IF c = 0 THEN 1 ELSE IF c < 0 THEN -2 * c ELSE 2 * c + 1

\* movements i and j start in the same year and overlap
TiedAndOverlapping(i, j) ==
    /\ movements[i].period.start = movements[j].period.start
    /\ ~Apart(movements[i].period, movements[j].period)

\* C23: movements with the same start year are placed in their input order: of
\* two overlapping movements with equal start the earlier in the input is
\* nearer the center in probe order (column 0 when the two are the whole
\* input) and the later is probed outward, so swapping the two swaps their columns.
C23_TiesPlacedInInputOrder ==
    Arranged =>
        /\ \A i, j \in Positions :
              (i < j /\ TiedAndOverlapping(i, j)) =>
                 /\ FirstIndexOf(sortedMovements, movements[i])
                        < FirstIndexOf(sortedMovements, movements[j])
                 /\ ProbeRank(columnAssignments[i]) < ProbeRank(columnAssignments[j])
        /\ (Len(movements) = 2 /\ TiedAndOverlapping(1, 2)) =>
              /\ columnAssignments[1] = 0
              /\ columnAssignments[2] # 0
              /\ arrangeMovementsInColumns(<<movements[2], movements[1]>>).columnAssignments
                    = columnAssignments

\* two overlapping movements of the same start year and different ends
C23_Witness ==
    /\ Arranged
    /\ Len(movements) = 2
    /\ TiedAndOverlapping(1, 2)
    /\ movements[1].period # movements[2].period
    /\ columnAssignments = <<0, -1>>

\* column c holds a movement placed before the k-th of the sorted list
OccupiedBefore(k, c) == \E h \in 1..(k - 1) : ColumnOfSorted(h) = c

\* the k-th movement overlaps a movement in every column occupied before it
ConflictsEverywhere(k) ==
    /\ k > 1
    /\ \A h \in 1..(k - 1) : ~FreeFor(k, ColumnOfSorted(h))

\* C24: for every input list the probing loop ends for each movement, after
\* looking at no more columns than there are movements placed before it plus
\* one; a movement that conflicts in every occupied column is placed in the
\* first empty column in probe order, and the function returns a column for
\* every movement.
C24_ProbingTerminates ==
    Arranged =>
        /\ Len(columnAssignments) = Len(movements)
        /\ Len(tried) = Len(movements)
        /\ \A k \in Positions :
              /\ Len(tried[k]) >= 1
              /\ Len(tried[k]) <= k
              /\ ConflictsEverywhere(k) =>
                    \E j \in 1..k :
                        /\ ~OccupiedBefore(k, ProbeOrder(j))
                        /\ \A i \in 1..(j - 1) : OccupiedBefore(k, ProbeOrder(i))
                        /\ ColumnOfSorted(k) = ProbeOrder(j)
                        /\ tried[k][Len(tried[k])] = ProbeOrder(j)

\* the fourth movement conflicts in the three occupied columns and opens a fourth
C24_Witness ==
    /\ Arranged
    /\ Len(movements) = 4
    /\ ConflictsEverywhere(4)
    /\ Len(tried[4]) = 4
    /\ ~OccupiedBefore(4, ColumnOfSorted(4))

\* C27: a movement without end year is a zero-length interval for
\* movementsOverlap: it overlaps a ranged movement exactly when its start lies
\* strictly between that movement's start and end, two movements without end
\* never overlap each other, even in the same year, and
\* arrangeMovementsInColumns puts same-year movements without end in the same column.
C27_PointMovements ==
    Arranged =>
        \A i, j \in Positions :
            LET p == movements[i].period
                q == movements[j].period
            IN  /\ (~HasEnd(p) /\ HasEnd(q)) =>
                      /\ movementsOverlap(movements[i], movements[j])
                            = (q.start < p.start /\ p.start < q.end)
                      /\ movementsOverlap(movements[j], movements[i])
                            = (q.start < p.start /\ p.start < q.end)
                /\ (~HasEnd(p) /\ ~HasEnd(q)) =>
                      /\ ~movementsOverlap(movements[i], movements[j])
                      /\ p.start = q.start => columnAssignments[i] = columnAssignments[j]

\* two movements without end in the same year, inside a ranged movement that
\* holds the center: both are beside it, in one column
C27_Witness ==
    /\ Arranged
    /\ \E i, j, k \in Positions :
          /\ i # j
          /\ ~HasEnd(movements[i].period) /\ ~HasEnd(movements[j].period)
          /\ movements[i].period.start = movements[j].period.start
          /\ HasEnd(movements[k].period)
          /\ movementsOverlap(movements[i], movements[k])
          /\ columnAssignments[k] = 0
          /\ columnAssignments[i] = -1
          /\ columnAssignments[j] = -1

\* some movement of the input is assigned column c
Used(c) == \E i \in Positions : columnAssignments[i] = c

OverlappingBefore(k) ==
    Cardinality({h \in 1..(k - 1) :
                    ~Apart(sortedMovements[k].period, sortedMovements[h].period)})

----------------------------------------------------------------------------
(* Claims about the Timeline component, checked under Spec *)

InView == phase = "view"

\* C6 (as claimed): start and end of the visible range both lie within the
\* overall time range.
C6_VisibleRangeWithinTimeRange ==
    InView =>
        /\ timeRange.start <= visibleRange.start
        /\ visibleRange.start <= EndOrStart(timeRange)
        /\ timeRange.start <= visibleRange.end
        /\ visibleRange.end <= EndOrStart(timeRange)

\* the year shown at a pixel offset when a year takes pixelsPerYear pixels
YearAtOffset(offset, pixelsPerYear) ==
    MathRound(Add(Num(timeRange.start),
                  Div(Sub(offset, Num(TIMELINE_PADDING)), pixelsPerYear)))

\* C7: once a scroll event or a zoom change has been handled, the visible range
\* is the one of the latest scroll offset and the latest zoom level.
C7_VisibleRangeIsLatest ==
    InView =>
        LET pixelsPerYear == Mul(Num(PIXELS_PER_YEAR), zoomLevel)
            bottom == Add(scrollOffset, Num(screenHeight - UI_ALLOWANCE))
        IN  /\ visibleRange.start =
                  IntMax(YearAtOffset(scrollOffset, pixelsPerYear), timeRange.start)
            /\ visibleRange.end =
                  IntMin(YearAtOffset(bottom, pixelsPerYear), EndOrStart(timeRange))

\* scrolled away from the top and zoomed away from the initial level, with a
\* visible range that starts after the first year
C7_Witness ==
    /\ InView
    /\ Lt(Num(0), scrollOffset)
    /\ zoomLevel # INITIAL_ZOOM
    /\ visibleRange.start > timeRange.start
    /\ visibleRange.end > visibleRange.start

\* C8: the zoom level, and every value passed to onZoomChange, is within
\* [0.5, 3].
C8_ZoomWithinLimits ==
    InView =>
        /\ Le(Frac(1, 2), zoomLevel) /\ Le(zoomLevel, Num(3))
        /\ zoomChanged # <<>> =>
              (Le(Frac(1, 2), zoomChanged[1]) /\ Le(zoomChanged[1], Num(3)))

\* a pinch was cut off at the upper limit, and button presses then brought the
\* zoom level to the lower limit
C8_Witness ==
    /\ InView
    /\ zoomChanged = <<Num(3)>>
    /\ pinchScale # <<>>
    /\ Lt(Num(3), Mul(gestureStartZoom, pinchScale[Len(pinchScale)]))
    /\ zoomLevel = Frac(1, 2)

\* C9: during a pinch every update passes to onZoomChange the zoom level of
\* the gesture's start times the update's scale, cut to [0.5, 3], whatever
\* the earlier updates of the pinch produced.
C9_PinchScalesGestureStartZoom ==
    (InView /\ onZoomChange # "absent" /\ pinchState = "ACTIVE" /\ pinchScale # <<>>) =>
        LET scaled == Mul(gestureStartZoom, pinchScale[Len(pinchScale)])
            cut    == IF Lt(scaled, Frac(1, 2)) THEN Frac(1, 2)
                      ELSE IF Lt(Num(3), scaled) THEN Num(3) ELSE scaled
        IN  zoomChanged = <<cut>>

\* two updates of one pinch with the same scale, the first of which changed
\* the zoom level, so that scaling the current level would give another value
C9_Witness ==
    /\ InView /\ onZoomChange # "absent" /\ pinchState = "ACTIVE"
    /\ Len(pinchScale) = 2
    /\ pinchScale[1] = pinchScale[2]
    /\ zoomLevel # gestureStartZoom
    /\ zoomChanged = <<Mul(gestureStartZoom, pinchScale[2])>>
    /\ Mul(zoomLevel, pinchScale[2]) # zoomChanged[1]

\* C17: changing the zoom level never alters the shared TIMELINE_CONFIG: after
\* any sequence of zoom changes its PIXELS_PER_YEAR is still 2, the zoomed
\* config is a value of its own whose PIXELS_PER_YEAR is base * zoom, and
\* TIMELINE_PADDING, MOVEMENT_HEIGHT and MOVEMENT_SPACING are the same at every
\* zoom level.
C17_ZoomLeavesSharedConfigAlone ==
    InView =>
        LET shared == configObjects.TIMELINE_CONFIG
            zoomed == configObjects.zoomedConfig
        IN  /\ shared.PIXELS_PER_YEAR = Num(2)
            /\ shared = TIMELINE_CONFIG
            /\ zoomed.PIXELS_PER_YEAR = Mul(Num(2), zoomLevel)
            /\ zoomed.TIMELINE_PADDING = Num(100)
            /\ zoomed.MOVEMENT_HEIGHT = Num(60)
            /\ zoomed.MOVEMENT_SPACING = Num(10)

\* a pinch has changed the zoom level and a button has changed it again
C17_Witness ==
    /\ InView
    /\ zoomChanged # <<>>
    /\ zoomLevel # zoomChanged[1]
    /\ zoomLevel # INITIAL_ZOOM
    /\ pinchState = "UNDETERMINED"
    /\ configObjects.zoomedConfig.PIXELS_PER_YEAR # configObjects.TIMELINE_CONFIG.PIXELS_PER_YEAR

\* C22: every recomputation of the visible range is reported through
\* onVisibleRangeChange with the new range: after each scroll or zoom event the
\* last range delivered to the callback is the Timeline's current visibleRange.
C22_LastDeliveredRangeIsCurrent ==
    InView => rangeChanged = <<visibleRange>>

\* scrolled and then zoomed out: the range delivered is not the one of the mount
C22_Witness ==
    /\ InView
    /\ scrollOffset # Num(0)
    /\ Lt(zoomLevel, INITIAL_ZOOM)
    /\ visibleRange # visibleRangeEffect(Num(0), timeRange, INITIAL_ZOOM, screenHeight)
    /\ rangeChanged = <<visibleRange>>

\* C26: the visible range is a well-formed period: for every scroll offset
\* (offsets before the top padding and past the end of the content included),
\* every viewport height and every zoom level, visibleRange.start <= visibleRange.end.
C26_VisibleRangeWellFormed ==
    InView => visibleRange.start <= visibleRange.end

----------------------------------------------------------------------------
(* Claims about the axis mapping, checked under SpecAxis *)

\* C10: a year converted to a scroll offset that has no fractional part
\* converts back to the same year.
C10_YearRoundTrip ==
    (phase = "axis-year" /\ offsetOfYear[1][2] = 1) => yearOfOffset = <<year>>

\* a round trip under a fractional pixels-per-year, for a year other than the
\* first of the range
C10_Witness ==
    /\ phase = "axis-year"
    /\ offsetOfYear[1][2] = 1
    /\ Mul(Num(PIXELS_PER_YEAR), zoomLevel)[2] # 1
    /\ year < timeRange.start
    /\ yearOfOffset = <<year>>

----------------------------------------------------------------------------
(* Claims about single calls, checked under SpecCall *)

Returned(fn) == phase = "returned" /\ call.fn = fn

DefaultRange == [start |-> 1400, end |-> 1920]

\* the year a scroll offset stands for, before rounding
ExactYear ==
    Add(Num(call.timeRange.start),
        Div(Sub(call.scrollOffset, call.config.TIMELINE_PADDING),
            call.config.PIXELS_PER_YEAR))

\* C11: scrollOffsetToYear returns the integer nearest to
\* timeRange.start + (offset - TIMELINE_PADDING) / PIXELS_PER_YEAR, an exact half
\* going up; with the default config and the range 1400-1920, offset 300 gives
\* 1500 and offset 301.4 gives 1501.
C11_NearestYearHalfUp ==
    (Returned("scrollOffsetToYear") /\ IsFinite(ExactYear)) =>
        LET result == returned[1]
        IN  /\ result \in Int
            /\ Le(Sub(Num(result), Frac(1, 2)), ExactYear)
            /\ Lt(ExactYear, Add(Num(result), Frac(1, 2)))
            /\ (call.config = TIMELINE_CONFIG /\ call.timeRange = DefaultRange) =>
                   /\ call.scrollOffset = Num(300) => result = 1500
                   /\ call.scrollOffset = Frac(3014, 10) => result = 1501

\* an offset exactly half way between two years, before the first year of the
\* range, has gone up
C11_Witness ==
    /\ Returned("scrollOffsetToYear")
    /\ IsFinite(ExactYear)
    /\ ExactYear[2] = 2
    /\ Lt(call.scrollOffset, call.config.TIMELINE_PADDING)
    /\ Sub(Num(returned[1]), ExactYear) = Frac(1, 2)

\* the years a movement lasts, an absent end counting as the start
Duration(period) == (IF HasEnd(period) THEN period.end ELSE period.start) - period.start

\* C12: getMovementHeight returns max(MOVEMENT_HEIGHT, (end - start) * PIXELS_PER_YEAR),
\* end defaulting to start: at every zoomed config the height is at least the
\* minimum bar height, and a movement without end year gets exactly the minimum.
C12_HeightAtLeastMinimum ==
    Returned("getMovementHeight") =>
        LET height     == returned[1]
            period     == call.movement.period
            calculated == Mul(Num(Duration(period)), call.config.PIXELS_PER_YEAR)
        IN  /\ Le(Num(MOVEMENT_HEIGHT), height)
            /\ height = IF Lt(Num(MOVEMENT_HEIGHT), calculated)
                        THEN calculated ELSE Num(MOVEMENT_HEIGHT)
            /\ ~HasEnd(period) => height = Num(MOVEMENT_HEIGHT)

\* a movement of some years whose scaled duration is below the minimum, zoomed in
C12_Witness ==
    /\ Returned("getMovementHeight")
    /\ Duration(call.movement.period) > 0
    /\ Lt(Num(PIXELS_PER_YEAR), call.config.PIXELS_PER_YEAR)
    /\ Lt(Mul(Num(Duration(call.movement.period)), call.config.PIXELS_PER_YEAR),
          Num(MOVEMENT_HEIGHT))
    /\ returned[1] = Num(MOVEMENT_HEIGHT)

\* the end year the overlap test uses
EndYear(period) == IF HasEnd(period) THEN period.end ELSE period.start

\* C13: movementsOverlap(a, b) is true exactly when a.start < b.end and
\* b.start < a.end, an absent end counting as the start; two periods where one's
\* end equals the other's start do not overlap.
C13_OverlapIsStrictIntersection ==
    Returned("movementsOverlap") =>
        LET a == call.movement1.period
            b == call.movement2.period
        IN  /\ returned[1] = (a.start < EndYear(b) /\ b.start < EndYear(a))
            /\ (EndYear(a) = b.start \/ EndYear(b) = a.start) => returned[1] = FALSE

\* two periods of more than a year, the second starting in the year the first ends
C13_Witness ==
    /\ Returned("movementsOverlap")
    /\ HasEnd(call.movement1.period)
    /\ HasEnd(call.movement2.period)
    /\ call.movement1.period.start < call.movement1.period.end
    /\ call.movement1.period.end = call.movement2.period.start
    /\ call.movement2.period.start < call.movement2.period.end
    /\ returned = <<FALSE>>

\* C14: movementsOverlap is symmetric: for every pair of movements, with or
\* without end years, movementsOverlap(a, b) = movementsOverlap(b, a).
C14_OverlapSymmetric ==
    Returned("movementsOverlap") =>
        returned[1] = movementsOverlap(call.movement2, call.movement1)

\* a movement without end year inside a ranged one, in both argument orders
C14_Witness ==
    /\ Returned("movementsOverlap")
    /\ ~HasEnd(call.movement1.period)
    /\ HasEnd(call.movement2.period)
    /\ returned = <<TRUE>>
    /\ movementsOverlap(call.movement2, call.movement1)

\* a pixels-per-year the layout can divide by: finite and strictly positive
ValidPixelsPerYear(config) ==
    IsFinite(config.PIXELS_PER_YEAR) /\ Lt(Num(0), config.PIXELS_PER_YEAR)

\* C16: a config whose pixels-per-year is zero, negative or non-finite is
\* rejected before any layout math runs: scrollOffsetToYear never returns a
\* result for such a config.
C16_InvalidConfigNeverYieldsResult ==
    (call.fn = "scrollOffsetToYear" /\ ~ValidPixelsPerYear(call.config)) =>
        returned = <<>>

\* C18: calculateTimelineHeight returns (end - start) * PIXELS_PER_YEAR +
\* 2 * TIMELINE_PADDING, end defaulting to start, so a time range without end has
\* extent 2 * padding; with the default config the range 1400-1920 gives 1240.
C18_TimelineHeight ==
    Returned("calculateTimelineHeight") =>
        LET range == call.timeRange
            ppy   == call.config.PIXELS_PER_YEAR
        IN  /\ returned[1] = Add(Mul(Num(Duration(range)), ppy), Num(2 * TIMELINE_PADDING))
            /\ ~HasEnd(range) => returned[1] = Num(2 * TIMELINE_PADDING)
            /\ (range = DefaultRange /\ call.config = TIMELINE_CONFIG) =>
                   returned[1] = Num(1240)

\* the default range under the default config
C18_Witness ==
    /\ Returned("calculateTimelineHeight")
    /\ call.timeRange = DefaultRange
    /\ call.config = TIMELINE_CONFIG
    /\ returned = <<Num(1240)>>

\* the period a formatting call was given
Formatted == IF call.fn = "formatYearRange" THEN call.period ELSE call.range

\* C19: formatYearRange and TimeIndicator's range text show the start year alone
\* when end is absent or equal to start, and "start - end" for every period
\* whose end is present and differs from start.
C19_RangeText ==
    (Returned("formatYearRange") \/ Returned("formatRange")) =>
        returned[1] =
            IF ~HasEnd(Formatted) \/ Formatted.end = Formatted.start
            THEN ToString(Formatted.start)
            ELSE ToString(Formatted.start) \o " - " \o ToString(Formatted.end)

\* C20: MovementBar places its wrapper at a left offset equal to
\* (barWidth + column spacing) * columnIndex: with the default bar width 20 and
\* spacing 30, column index 2 is at left 100.
C20_LeftOffsetIsColumnTimesPitch ==
    Returned("MovementBar") =>
        /\ returned[1] = Mul(Add(call.barWidth, Num(COLUMN_SPACING)), Num(call.columnIndex))
        /\ (call.barWidth = Num(20) /\ call.columnIndex = 2) => returned[1] = Num(100)

----------------------------------------------------------------------------
(* Claims about a render of Timeline, checked under SpecRender *)

Rendered == phase = "returned" /\ call.fn = "Timeline"

Bars == 1..Len(call.movements)

\* two periods that share more than an instant
OverlapInTime(p, q) == p.start < EndYear(q) /\ q.start < EndYear(p)

\* C21: any two movements that overlap in time are rendered by Timeline at
\* different left positions: they get different columns, and MovementBar maps
\* different column indexes to different left offsets at every bar width.
C21_OverlappingBarsSideBySide ==
    Rendered =>
        \A i, j \in Bars :
            (i # j /\ OverlapInTime(call.movements[i].period, call.movements[j].period))
                => returned[1].bars[i].left # returned[1].bars[j].left

\* three movements that overlap pairwise, at three left positions, zoomed
C21_Witness ==
    /\ Rendered
    /\ Len(call.movements) = 3
    /\ \A i, j \in Bars :
          i # j => OverlapInTime(call.movements[i].period, call.movements[j].period)
    /\ Cardinality({returned[1].bars[i].left : i \in Bars}) = 3
    /\ call.zoomLevel = Frac(4, 3)

\* the bars of i and j, each from its top to top + height, share no pixel row
ApartVertically(a, b) ==
    Le(Add(a.top, a.height), b.top) \/ Le(Add(b.top, b.height), a.top)

\* the column Timeline passes to the i-th MovementBar, read back from its left
SameColumn(i, j) == returned[1].bars[i].left = returned[1].bars[j].left

\* C25: for any two movements in the same column, the rendered bars, each from
\* getMovementStartY to getMovementStartY + getMovementHeight, do not intersect
\* vertically at any zoom level in [0.5, 3], movements without end year and
\* movements shorter than the minimum bar height included.
C25_SameColumnBarsApart ==
    Rendered =>
        \A i, j \in Bars :
            (i # j /\ SameColumn(i, j))
                => ApartVertically(returned[1].bars[i], returned[1].bars[j])

\* the period lies inside the time range, an absent end counting as the start
InsideRange(period, range) ==
    range.start <= period.start /\ EndYear(period) <= EndYear(range)

\* C30: for every movement whose period lies inside timeRange, at every zoom
\* level in [0.5, 3], the bar lies inside the scrollable content:
\* TIMELINE_PADDING <= getMovementStartY and getMovementStartY + getMovementHeight
\* <= calculateTimelineHeight(timeRange), also when the minimum bar height applies.
C30_BarInsideContent ==
    Rendered =>
        \A i \in Bars :
            InsideRange(call.movements[i].period, call.timeRange) =>
                LET bar == returned[1].bars[i]
                IN  /\ Le(Num(TIMELINE_PADDING), bar.top)
                    /\ Le(Add(bar.top, bar.height), returned[1].timelineHeight)

\* zoomed out, a movement that ends with the range and is drawn at the minimum
\* height reaches into the bottom padding
C30_Witness ==
    /\ Rendered
    /\ call.zoomLevel = Frac(1, 2)
    /\ \E i \in Bars :
          /\ InsideRange(call.movements[i].period, call.timeRange)
          /\ HasEnd(call.movements[i].period) /\ HasEnd(call.timeRange)
          /\ call.movements[i].period.end = call.timeRange.end
          /\ returned[1].bars[i].height = Num(MOVEMENT_HEIGHT)
          /\ Lt(Sub(returned[1].timelineHeight, Num(TIMELINE_PADDING)),
                Add(returned[1].bars[i].top, returned[1].bars[i].height))

====
